---- MODULE Spec2Model ----
(***************************************************************************)
(* Model of src/src/atproto.rs: the Session model, Client::login,          *)
(* Client::new, Client::xrpc_refresh_token, Client::xrpc_get and           *)
(* Client::xrpc_post.  One client, one storage, one server that may answer *)
(* every request with any status and any body, or fail at transport level. *)
(* Every `.await` of the code is a position of `pc`; the action that       *)
(* leaves a position is the code from that await to the next one.          *)
(***************************************************************************)
EXTENDS Integers, Sequences, FiniteSets, TLC

\* ---------------------------------------------------------------- bounds
MaxCalls == 2      \* operations (login, xrpc_get, xrpc_post) started in a run
MaxTok == 1        \* tokens are 0..MaxTok; token 0 is the empty string
MaxLog == 10       \* the per-operation event log saturates at this length
MaxRecs == 3       \* records in a record-list response
MaxVal == 2        \* record values are 1..MaxVal

\* ---------------------------------------------------- program constants
OK == 200
BAD_REQUEST == 400
UNAUTHORIZED == 401

\* The statuses the server answers with: 200, 400, 401, and 404 and 500 for
\* the statuses the code names nowhere.
Statuses == {OK, BAD_REQUEST, UNAUTHORIZED, 404, 500}
Tokens == 0..MaxTok
Codes == {"ExpiredToken", "InvalidRequest"}
Messages == {"m1", "m2"}

\* ------------------------------------------------------------ data model
\* struct Session { did, handle, jwt: Jwt { access, refresh } }
Session(did, handle, access, refresh) ==
    [did |-> did, handle |-> handle, jwt |-> [access |-> access, refresh |-> refresh]]

\* No Session: an empty storage, or no client constructed yet.
NoSession == Session("", "", -1, -1)

\* A response body, as the JSON object the server sent.  kind tells which
\* shape the JSON has; the fields a shape does not have keep their default.
Body(kind, error, message, accessJwt, refreshJwt, value) ==
    [kind |-> kind, error |-> error, message |-> message, did |-> "did:1",
     handle |-> "alice", accessJwt |-> accessJwt, refreshJwt |-> refreshJwt,
     value |-> value]

Garbage == Body("Garbage", "", "", -1, -1, 0)
ApiErrorBodies == {Body("ApiError", c, m, -1, -1, 0) : c \in Codes, m \in Messages}
SessionBodies == {Body("Session", "", "", a, r, 0) : a \in Tokens, r \in Tokens}
ValueBodies == {Body("Value", "", "", -1, -1, 1)}

\* What one send().await yields: a transport failure, or a status and a body.
NetFail == [ok |-> FALSE, status |-> 0, body |-> Garbage]
ResponsesWith(bodies) ==
    {NetFail} \cup {[ok |-> TRUE, status |-> s, body |-> b] : s \in Statuses, b \in bodies}

\* The responses each endpoint may give.  Garbage stands for every body that
\* parses as none of the shapes the code asks for at that endpoint.
LoginResponses == ResponsesWith({Garbage} \cup ApiErrorBodies \cup SessionBodies)
RefreshResponses == ResponsesWith({Garbage} \cup SessionBodies)
TargetResponses == ResponsesWith({Garbage} \cup ApiErrorBodies \cup ValueBodies)

\* impl From<CreateSession> for Session
FromCreateSession(create) ==
    Session(create.did, create.handle, create.accessJwt, create.refreshJwt)


\* Mutant: the two credentials of the refresh response are exchanged.
FromRefreshSessionSwapped(refresh) ==
    Session(refresh.did, refresh.handle, refresh.refreshJwt, refresh.accessJwt)

\* impl From<RefreshSession> for Session
FromRefreshSession(refresh) ==
    Session(refresh.did, refresh.handle, refresh.accessJwt, refresh.refreshJwt)

\* response.json::<ApiError>() succeeds on a body with error and message.
IsApiError(b) == b.kind = "ApiError"
\* response.json::<CreateSession>() / ::<RefreshSession>()
IsSessionBody(b) == b.kind = "Session"
\* response.json::<D>() for the caller's expected shape D
IsValue(b) == b.kind = "Value"

\* reqwest: Response::error_for_status is Err for 400..=599.
IsErrorStatus(s) == s >= 400 /\ s <= 599

\* GetService::access_token
access_token(sess) == sess.jwt.access

\* ------------------------------------------------------------- outcomes
Result(kind, inner, error, message, value) ==
    [kind |-> kind, inner |-> inner, error |-> error, message |-> message, value |-> value]

NoResult == Result("None", "", "", "", 0)
Cancelled == Result("Cancelled", "", "", "", 0)
OkResult(v) == Result("Ok", "", "", "", v)
\* The Reqwest variant of LoginError / GetError / PostError; inner tells
\* which reqwest::Error: "send" (transport), "status" (error_for_status) or
\* "decode" (the body did not parse).
ReqwestError(inner) == Result("Reqwest", inner, "", "", 0)

\* Mutant: the Api variant is built without the server's message.
ApiErrorResultNoMessage(b) == Result("Api", "", b.error, "", 0)

\* The Api variant, carrying the ApiError parsed from the body.
ApiErrorResult(b) == Result("Api", "", b.error, b.message, 0)
\* GetError::Refresh / PostError::Refresh wrapping a RefreshError variant.
RefreshErrorResult(inner) == Result("Refresh", inner, "", "", 0)
\* LoginError::Storage
StorageErrorResult == Result("Storage", "", "", "", 0)
\* PostError::Json
JsonErrorResult == Result("Json", "", "", "", 0)
\* unreachable!() was executed.
Panic == Result("Panic", "", "", "", 0)

\* ---------------------------------------------------------------- events
Event(ev, tok, resp) == [ev |-> ev, tok |-> tok, resp |-> resp]
NoResp == [ok |-> FALSE, status |-> -1, body |-> Garbage]
SendEv(endpoint, tok) == Event(endpoint, tok, NoResp)
RespEv(r) == Event("resp", -1, r)
StepEv(ev) == Event(ev, -1, NoResp)

LogAdd(l, es) == IF Len(l) + Len(es) <= MaxLog THEN l \o es ELSE l

RECURSIVE CountEv(_, _)
CountEv(l, ev) ==
    IF l = <<>> THEN 0
    ELSE (IF Head(l).ev = ev THEN 1 ELSE 0) + CountEv(Tail(l), ev)

VARIABLES
    storage,        \* the Session the Storage holds, or NoSession
    session,        \* Client.session, or NoSession before Client::new
    pc,             \* position of the running operation
    op,             \* the operation running or last run
    result,         \* what the last operation returned
    pending,        \* the local `session` / `body` of the running operation
    log,            \* events of the running (or last) operation, in order
    calls,          \* operations started so far
    sessionAtCall,  \* history: Client.session when the operation started
    storageAtCall,  \* history: storage when the operation started
    loaded,         \* history: the Session Client::new loaded
    savedOk,        \* history: Sessions whose storage.set returned Ok in a refresh
    recOp,          \* the record operation run: repo_get_record, repo_list_records
    recGot,         \* what its xrpc_get call returned to it
    recOut          \* what the record operation returned

\* The state of the client and its calls, and the state of a record operation.
coreVars == <<storage, session, pc, op, result, pending, log, calls,
              sessionAtCall, storageAtCall, loaded, savedOk>>
recVars == <<recOp, recGot, recOut>>
vars == <<storage, session, pc, op, result, pending, log, calls,
          sessionAtCall, storageAtCall, loaded, savedOk, recOp, recGot, recOut>>

\* A Session persisted by an earlier run of the program.
StoredBefore == Session("did:1", "alice", 1, 1)

\* Nothing has run yet: the storage is empty or holds an earlier Session, and
\* no client exists.
Init ==
    /\ storage \in {NoSession, StoredBefore}
    /\ session = NoSession
    /\ pc = "start"
    /\ op = "none"
    /\ result = NoResult
    /\ pending = NoSession
    /\ log = <<>>
    /\ calls = 0
    /\ sessionAtCall = NoSession
    /\ storageAtCall = NoSession
    /\ loaded = NoSession
    /\ savedOk = {}
    /\ recOp = "none"
    /\ recGot = NoResult
    /\ recOut = NoResult

\* An operation returns res to its caller; back is the position afterwards.
Return(res, l, back) ==
    /\ result' = res
    /\ log' = l
    /\ pc' = back

\* --------------------------------------------------------- Client::login
\* login up to the first await: the createSession request is sent.
LoginSend ==
    /\ pc = "start"
    /\ calls < MaxCalls
    /\ calls' = calls + 1
    /\ op' = "login"
    /\ pc' = "login_sent"
    /\ result' = NoResult
    /\ log' = <<SendEv("login", -1)>>
    /\ sessionAtCall' = session
    /\ storageAtCall' = storage
    /\ pending' = NoSession
    /\ UNCHANGED <<storage, session, loaded, savedOk>>
    /\ UNCHANGED recVars

\* login from the response to storage.set().await, or to its return.
LoginRecv ==
    /\ pc = "login_sent"
    /\ \E r \in LoginResponses :
         LET l1 == LogAdd(log, <<RespEv(r)>>) IN
         IF ~r.ok THEN
             Return(ReqwestError("send"), l1, "start") /\ UNCHANGED pending
         ELSE IF r.status = UNAUTHORIZED THEN
             /\ Return(IF IsApiError(r.body) THEN ApiErrorResult(r.body)
                       ELSE ReqwestError("decode"), l1, "start")
             /\ UNCHANGED pending
         ELSE IF r.status = OK THEN
             IF IsSessionBody(r.body) THEN
                 /\ pending' = FromCreateSession(r.body)
                 /\ pc' = "login_saving"
                 /\ log' = LogAdd(l1, <<StepEv("set")>>)
                 /\ UNCHANGED result
             ELSE Return(ReqwestError("decode"), l1, "start") /\ UNCHANGED pending
         ELSE
             Return(Panic, l1, "panicked") /\ UNCHANGED pending
    /\ UNCHANGED <<storage, session, op, calls, sessionAtCall, storageAtCall,
                   loaded, savedOk>>
    /\ UNCHANGED recVars

\* Storage::set: overwrites the stored Session when it succeeds.
StorageSet(ok, old, new) == IF ok THEN new ELSE old


\* Mutant: login ignores the outcome of storage.set.
LoginSetDoneIgnoresErr ==
    /\ pc = "login_saving"
    /\ \E ok \in BOOLEAN :
         /\ storage' = StorageSet(ok, storage, pending)
         /\ Return(OkResult(0),
                   LogAdd(log, <<StepEv(IF ok THEN "setOk" ELSE "setErr")>>), "start")
    /\ UNCHANGED <<session, op, pending, calls, sessionAtCall, storageAtCall,
                   loaded, savedOk>>
    /\ UNCHANGED recVars

\* login after storage.set(&body).await
LoginSetDone ==
    /\ pc = "login_saving"
    /\ \E ok \in BOOLEAN :
         /\ storage' = StorageSet(ok, storage, pending)
         /\ IF ok THEN Return(OkResult(0), LogAdd(log, <<StepEv("setOk")>>), "start")
            ELSE Return(StorageErrorResult, LogAdd(log, <<StepEv("setErr")>>), "start")
    /\ UNCHANGED <<session, op, pending, calls, sessionAtCall, storageAtCall,
                   loaded, savedOk>>
    /\ UNCHANGED recVars

\* ----------------------------------------------------------- Client::new
\* storage.get().await? : fails when nothing is stored or the backend fails.
New ==
    /\ pc = "start"
    /\ \E ok \in BOOLEAN :
         IF ok /\ storage # NoSession THEN
             /\ session' = storage
             /\ loaded' = storage
             /\ pc' = "idle"
             /\ result' = OkResult(0)
         ELSE
             /\ result' = StorageErrorResult
             /\ UNCHANGED <<session, loaded, pc>>
    /\ op' = "new"
    /\ log' = <<StepEv("get")>>
    /\ UNCHANGED <<storage, pending, calls, sessionAtCall, storageAtCall, savedOk>>
    /\ UNCHANGED recVars

\* ------------------------------------------- Client::xrpc_refresh_token
\* Mutant: the refresh request carries the access token.
RefreshSendWithAccess(l) ==
    /\ pc' = "refresh_sent"
    /\ log' = LogAdd(l, <<SendEv("refresh", session.jwt.access)>>)
    /\ UNCHANGED <<result, session, storage, pending, savedOk>>

\* xrpc_refresh_token up to its first await: the refreshSession request is
\* sent with the refresh credential as bearer token.
RefreshSend(l) ==
    /\ pc' = "refresh_sent"
    /\ log' = LogAdd(l, <<SendEv("refresh", session.jwt.refresh)>>)
    /\ UNCHANGED <<result, session, storage, pending, savedOk>>

\* The caller's make_request(self, ...).send(): a request to the target
\* endpoint carrying the access token of the Session sess.
MakeRequest(sess) == SendEv("target", access_token(sess))


\* Mutant: the new Session is swapped in before storage.set is awaited.
RefreshRecvSwapsFirst ==
    /\ pc = "refresh_sent"
    /\ \E r \in RefreshResponses :
         LET l1 == LogAdd(log, <<RespEv(r)>>) IN
         IF ~r.ok \/ IsErrorStatus(r.status) \/ ~IsSessionBody(r.body) THEN
             /\ Return(RefreshErrorResult("Reqwest"), l1, "idle")
             /\ UNCHANGED <<pending, session>>
         ELSE
             /\ pending' = FromRefreshSession(r.body)
             /\ session' = pending'
             /\ pc' = "refresh_saving"
             /\ log' = LogAdd(l1, <<StepEv("swap"), StepEv("set")>>)
             /\ UNCHANGED result
    /\ UNCHANGED <<storage, op, calls, sessionAtCall, storageAtCall,
                   loaded, savedOk>>
    /\ UNCHANGED recVars

\* xrpc_refresh_token from the response to storage.set().await, or to its
\* return with an error, which the caller's `?` wraps as Refresh(e).
RefreshRecv ==
    /\ pc = "refresh_sent"
    /\ \E r \in RefreshResponses :
         LET l1 == LogAdd(log, <<RespEv(r)>>) IN
         IF ~r.ok \/ IsErrorStatus(r.status) \/ ~IsSessionBody(r.body) THEN
             /\ Return(RefreshErrorResult("Reqwest"), l1, "idle")
             /\ UNCHANGED pending
         ELSE
             /\ pending' = FromRefreshSession(r.body)
             /\ pc' = "refresh_saving"
             /\ log' = LogAdd(l1, <<StepEv("set")>>)
             /\ UNCHANGED result
    /\ UNCHANGED <<storage, session, op, calls, sessionAtCall, storageAtCall,
                   loaded, savedOk>>
    /\ UNCHANGED recVars


\* Mutant: the Session is swapped in and the request sent again whether or
\* not storage.set succeeded.
RefreshSetDoneAlwaysSwaps ==
    /\ pc = "refresh_saving"
    /\ \E ok \in BOOLEAN :
         /\ storage' = StorageSet(ok, storage, pending)
         /\ session' = pending
         /\ savedOk' = IF ok THEN savedOk \cup {pending} ELSE savedOk
         /\ log' = LogAdd(log, <<StepEv(IF ok THEN "setOk" ELSE "setErr"),
                                 StepEv("swap"), MakeRequest(session')>>)
         /\ pc' = IF op = "xrpc_get" THEN "get_sent2" ELSE "post_sent2"
         /\ UNCHANGED result
    /\ UNCHANGED <<op, pending, calls, sessionAtCall, storageAtCall, loaded>>
    /\ UNCHANGED recVars

\* xrpc_refresh_token after storage.set(&session).await: on Err the error is
\* returned; on Ok the Session is swapped in, and the caller (xrpc_get or
\* xrpc_post) sends the request again, up to that send's await.
RefreshSetDone ==
    /\ pc = "refresh_saving"
    /\ \E ok \in BOOLEAN :
         /\ storage' = StorageSet(ok, storage, pending)
         /\ IF ok THEN
                /\ session' = pending
                /\ savedOk' = savedOk \cup {pending}
                /\ log' = LogAdd(log, <<StepEv("setOk"), StepEv("swap"),
                                        MakeRequest(session')>>)
                /\ pc' = IF op = "xrpc_get" THEN "get_sent2" ELSE "post_sent2"
                /\ UNCHANGED result
            ELSE
                /\ Return(RefreshErrorResult("Storage"),
                          LogAdd(log, <<StepEv("setErr")>>), "idle")
                /\ UNCHANGED <<session, savedOk>>
    /\ UNCHANGED <<op, pending, calls, sessionAtCall, storageAtCall, loaded>>
    /\ UNCHANGED recVars

\* ------------------------------------------ Client::xrpc_get / xrpc_post
\* Ok(response.error_for_status()?.json().await?)
ErrorForStatusThenJson(r) ==
    IF IsErrorStatus(r.status) THEN ReqwestError("status")
    ELSE IF IsValue(r.body) THEN OkResult(r.body.value)
    ELSE ReqwestError("decode")

\* Mutant: the operations take a shared reference, so a call may start while
\* another call of the client is suspended.
BeginShared(name) ==
    /\ pc \in {"idle", "get_sent1", "get_sent2", "post_sent1", "post_sent2",
               "refresh_sent", "refresh_saving"}
    /\ calls < MaxCalls
    /\ calls' = calls + 1
    /\ op' = name
    /\ sessionAtCall' = session
    /\ storageAtCall' = storage
    /\ pending' = NoSession
    /\ UNCHANGED <<storage, session, loaded, savedOk>>

\* The start of an operation on the client: the history is recorded.  The
\* operations take `&mut self`, and the future of a call holds that borrow
\* until it returns or is dropped: a call starts only when no other call of
\* this client is suspended.
Begin(name) ==
    /\ pc = "idle"
    /\ calls < MaxCalls
    /\ calls' = calls + 1
    /\ op' = name
    /\ sessionAtCall' = session
    /\ storageAtCall' = storage
    /\ pending' = NoSession
    /\ UNCHANGED <<storage, session, loaded, savedOk>>

\* xrpc_get up to the first send().await
XrpcGetSend ==
    /\ Begin("xrpc_get")
    /\ pc' = "get_sent1"
    /\ result' = NoResult
    /\ log' = <<MakeRequest(session)>>
    /\ UNCHANGED recVars

\* Mutant: a transport failure of the first send is answered by sending the
\* request once more.
XrpcGetRecv1RetriesSend ==
    /\ pc = "get_sent1"
    /\ \E r \in TargetResponses :
         LET l1 == LogAdd(log, <<RespEv(r)>>) IN
         IF ~r.ok THEN
             IF CountEv(log, "target") < 2 THEN
                 /\ pc' = "get_sent1"
                 /\ log' = LogAdd(l1, <<MakeRequest(session)>>)
                 /\ UNCHANGED <<result, session, storage, pending, savedOk>>
             ELSE
                 Return(ReqwestError("send"), l1, "idle")
                 /\ UNCHANGED <<session, storage, pending, savedOk>>
         ELSE IF r.status = BAD_REQUEST THEN
             IF ~IsApiError(r.body) THEN
                 Return(ReqwestError("decode"), l1, "idle")
                 /\ UNCHANGED <<session, storage, pending, savedOk>>
             ELSE IF r.body.error = "ExpiredToken" THEN
                 RefreshSend(l1)
             ELSE
                 Return(ApiErrorResult(r.body), l1, "idle")
                 /\ UNCHANGED <<session, storage, pending, savedOk>>
         ELSE
             Return(ErrorForStatusThenJson(r), l1, "idle")
             /\ UNCHANGED <<session, storage, pending, savedOk>>
    /\ UNCHANGED <<op, calls, sessionAtCall, storageAtCall, loaded>>
    /\ UNCHANGED recVars

\* Mutant: every 400 with an ApiError body starts the refresh.
XrpcGetRecv1RefreshesOnAny400 ==
    /\ pc = "get_sent1"
    /\ \E r \in TargetResponses :
         LET l1 == LogAdd(log, <<RespEv(r)>>) IN
         IF ~r.ok THEN
             Return(ReqwestError("send"), l1, "idle")
             /\ UNCHANGED <<session, storage, pending, savedOk>>
         ELSE IF r.status = BAD_REQUEST THEN
             IF ~IsApiError(r.body) THEN
                 Return(ReqwestError("decode"), l1, "idle")
                 /\ UNCHANGED <<session, storage, pending, savedOk>>
             ELSE
                 RefreshSend(l1)
         ELSE
             Return(ErrorForStatusThenJson(r), l1, "idle")
             /\ UNCHANGED <<session, storage, pending, savedOk>>
    /\ UNCHANGED <<op, calls, sessionAtCall, storageAtCall, loaded>>
    /\ UNCHANGED recVars

\* xrpc_get from the first response: returns, or starts the refresh.
XrpcGetRecv1 ==
    /\ pc = "get_sent1"
    /\ \E r \in TargetResponses :
         LET l1 == LogAdd(log, <<RespEv(r)>>) IN
         IF ~r.ok THEN
             Return(ReqwestError("send"), l1, "idle")
             /\ UNCHANGED <<session, storage, pending, savedOk>>
         ELSE IF r.status = BAD_REQUEST THEN
             IF ~IsApiError(r.body) THEN
                 Return(ReqwestError("decode"), l1, "idle")
                 /\ UNCHANGED <<session, storage, pending, savedOk>>
             ELSE IF r.body.error = "ExpiredToken" THEN
                 RefreshSend(l1)
             ELSE
                 Return(ApiErrorResult(r.body), l1, "idle")
                 /\ UNCHANGED <<session, storage, pending, savedOk>>
         ELSE
             Return(ErrorForStatusThenJson(r), l1, "idle")
             /\ UNCHANGED <<session, storage, pending, savedOk>>
    /\ UNCHANGED <<op, calls, sessionAtCall, storageAtCall, loaded>>
    /\ UNCHANGED recVars


\* Mutant: the response to the request sent again is handled like the first
\* one, so an ExpiredToken starts another refresh.
XrpcGetRecv2Loops ==
    /\ pc = "get_sent2"
    /\ \E r \in TargetResponses :
         LET l1 == LogAdd(log, <<RespEv(r)>>) IN
         IF r.ok /\ r.status = BAD_REQUEST /\ IsApiError(r.body)
                 /\ r.body.error = "ExpiredToken" THEN
             RefreshSend(l1)
         ELSE
             /\ Return(IF ~r.ok THEN ReqwestError("send")
                       ELSE ErrorForStatusThenJson(r), l1, "idle")
             /\ UNCHANGED <<session, storage, pending, savedOk>>
    /\ UNCHANGED <<op, calls, sessionAtCall, storageAtCall, loaded>>
    /\ UNCHANGED recVars

\* Mutant: when the request sent again fails, the Session the call started
\* with is put back in memory.
XrpcGetRecv2RollsBack ==
    /\ pc = "get_sent2"
    /\ \E r \in TargetResponses :
         LET l1 == LogAdd(log, <<RespEv(r)>>)
             res == IF ~r.ok THEN ReqwestError("send") ELSE ErrorForStatusThenJson(r) IN
         /\ Return(res, l1, "idle")
         /\ session' = IF res.kind = "Ok" THEN session ELSE sessionAtCall
    /\ UNCHANGED <<storage, op, pending, calls, sessionAtCall,
                   storageAtCall, loaded, savedOk>>
    /\ UNCHANGED recVars

\* xrpc_get from the response to the request sent again.
XrpcGetRecv2 ==
    /\ pc = "get_sent2"
    /\ \E r \in TargetResponses :
         LET l1 == LogAdd(log, <<RespEv(r)>>) IN
         IF ~r.ok THEN Return(ReqwestError("send"), l1, "idle")
         ELSE Return(ErrorForStatusThenJson(r), l1, "idle")
    /\ UNCHANGED <<storage, session, op, pending, calls, sessionAtCall,
                   storageAtCall, loaded, savedOk>>
    /\ UNCHANGED recVars

\* xrpc_post up to the first send().await; serde_json::to_string(body)? may
\* fail before anything is sent.
XrpcPostSend ==
    /\ Begin("xrpc_post")
    /\ \E serOk \in BOOLEAN :
         IF serOk THEN
             /\ pc' = "post_sent1"
             /\ result' = NoResult
             /\ log' = <<MakeRequest(session)>>
         ELSE
             Return(JsonErrorResult, <<>>, "idle")
    /\ UNCHANGED recVars

\* Mutant: xrpc_post returns a 400 ExpiredToken as an Api error, without the
\* refresh and the second send.
XrpcPostRecv1NoRefresh ==
    /\ pc = "post_sent1"
    /\ \E r \in TargetResponses :
         LET l1 == LogAdd(log, <<RespEv(r)>>) IN
         Return(IF ~r.ok THEN ReqwestError("send")
                ELSE IF r.status = BAD_REQUEST THEN
                    (IF IsApiError(r.body) THEN ApiErrorResult(r.body)
                     ELSE ReqwestError("decode"))
                ELSE ErrorForStatusThenJson(r), l1, "idle")
    /\ UNCHANGED <<session, storage, pending, savedOk>>
    /\ UNCHANGED <<op, calls, sessionAtCall, storageAtCall, loaded>>
    /\ UNCHANGED recVars

\* xrpc_post from the first response: returns, or starts the refresh.
XrpcPostRecv1 ==
    /\ pc = "post_sent1"
    /\ \E r \in TargetResponses :
         LET l1 == LogAdd(log, <<RespEv(r)>>) IN
         IF ~r.ok THEN
             Return(ReqwestError("send"), l1, "idle")
             /\ UNCHANGED <<session, storage, pending, savedOk>>
         ELSE IF r.status = BAD_REQUEST THEN
             IF ~IsApiError(r.body) THEN
                 Return(ReqwestError("decode"), l1, "idle")
                 /\ UNCHANGED <<session, storage, pending, savedOk>>
             ELSE IF r.body.error = "ExpiredToken" THEN
                 RefreshSend(l1)
             ELSE
                 Return(ApiErrorResult(r.body), l1, "idle")
                 /\ UNCHANGED <<session, storage, pending, savedOk>>
         ELSE
             Return(ErrorForStatusThenJson(r), l1, "idle")
             /\ UNCHANGED <<session, storage, pending, savedOk>>
    /\ UNCHANGED <<op, calls, sessionAtCall, storageAtCall, loaded>>
    /\ UNCHANGED recVars


\* Mutant: as XrpcGetRecv2Loops, for xrpc_post.
XrpcPostRecv2Loops ==
    /\ pc = "post_sent2"
    /\ \E r \in TargetResponses :
         LET l1 == LogAdd(log, <<RespEv(r)>>) IN
         IF r.ok /\ r.status = BAD_REQUEST /\ IsApiError(r.body)
                 /\ r.body.error = "ExpiredToken" THEN
             RefreshSend(l1)
         ELSE
             /\ Return(IF ~r.ok THEN ReqwestError("send")
                       ELSE ErrorForStatusThenJson(r), l1, "idle")
             /\ UNCHANGED <<session, storage, pending, savedOk>>
    /\ UNCHANGED <<op, calls, sessionAtCall, storageAtCall, loaded>>
    /\ UNCHANGED recVars

\* xrpc_post from the response to the request sent again.
XrpcPostRecv2 ==
    /\ pc = "post_sent2"
    /\ \E r \in TargetResponses :
         LET l1 == LogAdd(log, <<RespEv(r)>>) IN
         IF ~r.ok THEN Return(ReqwestError("send"), l1, "idle")
         ELSE Return(ErrorForStatusThenJson(r), l1, "idle")
    /\ UNCHANGED <<storage, session, op, pending, calls, sessionAtCall,
                   storageAtCall, loaded, savedOk>>
    /\ UNCHANGED recVars

\* ------------------------------------------------- xrpc_get as a function
\* What a call does with what it is given: the number of responses it
\* consumed, its steps in order, Client.session and the storage at its
\* return, and what it returned.
Outcome(used, steps, sess, stor, res) ==
    [used |-> used, steps |-> steps, session |-> sess, storage |-> stor, result |-> res]

\* The call needs a response or a storage.set outcome it was not given.
Unfinished == Outcome(-1, <<>>, NoSession, NoSession, NoResult)

\* xrpc_get from the request sent again (line 250) to its return, new being
\* the Session swapped in and rs[3] the response.
GetRunRetry(new, steps, rs) ==
    IF Len(rs) < 3 THEN Unfinished
    ELSE Outcome(3, steps, new, new,
                 IF ~rs[3].ok THEN ReqwestError("send")
                 ELSE ErrorForStatusThenJson(rs[3]))

\* xrpc_refresh_token called at line 249, and the rest of xrpc_get: rs[2]
\* is the response of refreshSession, setOk the outcome of storage.set
\* ("ok", "err", or "none" when the call was given none).
GetRunRefresh(sess, stor, steps, rs, setOk) ==
    LET sent == steps \o <<SendEv("refresh", sess.jwt.refresh)>> IN
    IF Len(rs) < 2 THEN Unfinished
    ELSE IF ~rs[2].ok \/ IsErrorStatus(rs[2].status) \/ ~IsSessionBody(rs[2].body)
    THEN Outcome(2, sent, sess, stor, RefreshErrorResult("Reqwest"))
    ELSE LET new == FromRefreshSession(rs[2].body) IN
         IF setOk = "err"
         THEN Outcome(2, sent \o <<StepEv("set"), StepEv("setErr")>>, sess,
                      StorageSet(FALSE, stor, new), RefreshErrorResult("Storage"))
         ELSE IF setOk = "ok"
         THEN GetRunRetry(new, sent \o <<StepEv("set"), StepEv("setOk"),
                                         StepEv("swap"), MakeRequest(new)>>, rs)
         ELSE Unfinished

\* xrpc_get on a client whose Session is sess and whose storage holds stor,
\* given the responses rs in the order they arrive.
GetRun(sess, stor, rs, setOk) ==
    LET sent == <<MakeRequest(sess)>> IN
    IF Len(rs) < 1 THEN Unfinished
    ELSE IF ~rs[1].ok THEN Outcome(1, sent, sess, stor, ReqwestError("send"))
    ELSE IF rs[1].status = BAD_REQUEST THEN
        IF ~IsApiError(rs[1].body)
        THEN Outcome(1, sent, sess, stor, ReqwestError("decode"))
        ELSE IF rs[1].body.error = "ExpiredToken"
        THEN GetRunRefresh(sess, stor, sent, rs, setOk)
        ELSE Outcome(1, sent, sess, stor, ApiErrorResult(rs[1].body))
    ELSE Outcome(1, sent, sess, stor, ErrorForStatusThenJson(rs[1]))

\* ----------------------------------------------------------- cancellation
\* The positions at which a dispatcher call is suspended in an await.
AwaitPoints == {"get_sent1", "get_sent2", "post_sent1", "post_sent2",
                "refresh_sent", "refresh_saving"}
InCall == pc \in AwaitPoints

\* The caller drops the future of a dispatcher call at an await.  Nothing of
\* the call runs afterwards; a storage.set in flight may or may not have been
\* applied by the storage (the log records "written" when it was).
Cancel ==
    /\ InCall
    /\ pc' = "idle"
    /\ result' = Cancelled
    /\ IF pc = "refresh_saving"
       THEN \E written \in BOOLEAN :
              /\ storage' = StorageSet(written, storage, pending)
              /\ log' = IF written THEN LogAdd(log, <<StepEv("written")>>) ELSE log
       ELSE UNCHANGED <<storage, log>>
    /\ UNCHANGED <<session, op, pending, calls, sessionAtCall, storageAtCall,
                   loaded, savedOk>>
    /\ UNCHANGED recVars

\* ------------------------------------------------------ record operations
\* GetRecord<D> { uri, cid, value }: the record envelope of a response.
RecordEnvelopes == [uri : {"at://1", "at://2"}, cid : {"cid1", "cid2"}, value : 1..MaxVal]

\* ListRecords<D> { records }: the record-list envelopes of at most MaxRecs
\* records.
ListEnvelopes ==
    {[records |-> rs] : rs \in UNION {[1..k -> RecordEnvelopes] : k \in 0..MaxRecs}}

\* The errors xrpc_get may return to a record operation.
GetErrors == {ReqwestError("send"), ReqwestError("status"), ReqwestError("decode"),
              RefreshErrorResult("Reqwest"), RefreshErrorResult("Storage")}

\* Ok(v), as xrpc_get returns it to, and as a record operation returns it.
Got(v) == [kind |-> "Ok", value |-> v]

\* Mutant: the values are collected last record first.
RECURSIVE CollectValuesReversed(_)
CollectValuesReversed(records) ==
    IF Len(records) = 0 THEN <<>>
    ELSE CollectValuesReversed(Tail(records)) \o <<Head(records).value>>

\* l.records.into_iter().map(|r| r.value).collect()
RECURSIVE CollectValues(_)
CollectValues(records) ==
    IF Len(records) = 0 THEN <<>>
    ELSE <<Head(records).value>> \o CollectValues(Tail(records))

\* repo_get_record: xrpc_get::<GetRecord<D>>(..).await.map(|r| r.value)
RepoGetRecord ==
    /\ recOp = "none"
    /\ recOp' = "repo_get_record"
    /\ \/ \E r \in RecordEnvelopes : recGot' = Got(r)
       \/ \E e \in GetErrors : recGot' = e
    /\ recOut' = IF recGot'.kind = "Ok" THEN Got(recGot'.value.value) ELSE recGot'
    /\ UNCHANGED coreVars

\* repo_list_records: xrpc_get::<ListRecords<D>>(..).await.map(|l| ..)
RepoListRecords ==
    /\ recOp = "none"
    /\ recOp' = "repo_list_records"
    /\ \/ \E l \in ListEnvelopes : recGot' = Got(l)
       \/ \E e \in GetErrors : recGot' = e
    /\ recOut' = IF recGot'.kind = "Ok" THEN Got(CollectValues(recGot'.value.records))
                 ELSE recGot'
    /\ UNCHANGED coreVars

RecNext ==
    \/ RepoGetRecord
    \/ RepoListRecords

\* A record operation on the result of its xrpc_get call.
RecordSpec == Init /\ [][RecNext]_vars

Next ==
    \/ LoginSend
    \/ LoginRecv
    \/ LoginSetDone
    \/ New
    \/ XrpcGetSend
    \/ XrpcGetRecv1
    \/ XrpcGetRecv2
    \/ XrpcPostSend
    \/ XrpcPostRecv1
    \/ XrpcPostRecv2
    \/ RefreshRecv
    \/ RefreshSetDone
    \/ Cancel

Spec == Init /\ [][Next]_vars

\* The operations when no call is cancelled: every call runs to its return.
SerialNext ==
    \/ LoginSend
    \/ LoginRecv
    \/ LoginSetDone
    \/ New
    \/ XrpcGetSend
    \/ XrpcGetRecv1
    \/ XrpcGetRecv2
    \/ XrpcPostSend
    \/ XrpcPostRecv1
    \/ XrpcPostRecv2
    \/ RefreshRecv
    \/ RefreshSetDone

SerialSpec == Init /\ [][SerialNext]_vars

\* Every send and every storage.set in flight eventually returns.
FairSpec ==
    /\ Spec
    /\ WF_vars(XrpcGetRecv1) /\ WF_vars(XrpcGetRecv2)
    /\ WF_vars(XrpcPostRecv1) /\ WF_vars(XrpcPostRecv2)
    /\ WF_vars(RefreshRecv) /\ WF_vars(RefreshSetDone)
    /\ WF_vars(LoginRecv) /\ WF_vars(LoginSetDone)

\* ------------------------------------------------------- reading the log
IsRespEv(e) == e.ev = "resp"
IsStepEv(e) == e.ev # "resp"
\* The responses the running (or last) operation received, in order.
Resps == SelectSeq(log, IsRespEv)
\* What the operation did, in order: sends, storage.set, swap.
Steps == SelectSeq(log, IsStepEv)
StepNames == [i \in 1..Len(Steps) |-> Steps[i].ev]
RespAt(n) == IF Len(Resps) >= n THEN Resps[n].resp ELSE NoResp
HasResp(n) == Len(Resps) >= n

TargetSends == CountEv(log, "target")
RefreshSends == CountEv(log, "refresh")
SetCalls == CountEv(log, "set")
\* storage.set returned Err / Ok in the running (or last) operation.
SetFailed == CountEv(log, "setErr") > 0
SetSucceeded == CountEv(log, "setOk") > 0

IsExpired(r) ==
    r.ok /\ r.status = BAD_REQUEST /\ IsApiError(r.body) /\ r.body.error = "ExpiredToken"
RefreshAnswerOk(r) == r.ok /\ ~IsErrorStatus(r.status) /\ IsSessionBody(r.body)

IsDispatch == op \in {"xrpc_get", "xrpc_post"}
\* A dispatcher call has returned to its caller (it was not cancelled).
DispatchReturned == IsDispatch /\ pc = "idle" /\ result.kind \notin {"None", "Cancelled"}
LoginReturned == op = "login" /\ pc \in {"start", "panicked"}

\* --------------------------------------------------------------- claims

\* C1: a dispatcher call (xrpc_get or xrpc_post) sends at most two requests
\* to the target endpoint and starts the token refresh at most once,
\* whatever the server answers; a second ExpiredToken starts no refresh.
C1_SingleRetryBound ==
    IsDispatch => (TargetSends <= 2 /\ RefreshSends <= 1)

\* C1 witness: an xrpc_get has returned after the server answered both
\* target requests with 400 ExpiredToken.
C1_Witness ==
    /\ op = "xrpc_get" /\ DispatchReturned
    /\ IsExpired(RespAt(1)) /\ IsExpired(RespAt(3))
    /\ TargetSends = 2 /\ RefreshSends = 1

\* C2: first response 400 ExpiredToken, refresh and save succeed, the
\* response to the request sent again is 400 ExpiredToken: the call returns
\* the Api variant carrying the server's code and message.
C2_SecondExpiredIsApiError ==
    (DispatchReturned /\ IsExpired(RespAt(1)) /\ RefreshAnswerOk(RespAt(2))
        /\ IsExpired(RespAt(3)))
    => (result.kind = "Api" /\ result.error = RespAt(3).body.error
        /\ result.message = RespAt(3).body.message)

\* C3: under FairSpec (every send and every storage.set in flight returns)
\* a dispatcher call in progress always comes to an end, and it never takes
\* more than three round trips (two to the target, one to refresh).
C3_CallTerminates ==
    /\ InCall ~> (pc = "idle" /\ result # NoResult)
    /\ [](IsDispatch => Len(Resps) <= 3)

\* C3 witness: an xrpc_post has returned after three round trips, the
\* server having answered ExpiredToken each time it was asked.
C3_Witness ==
    /\ op = "xrpc_post" /\ DispatchReturned
    /\ Len(Resps) = 3 /\ IsExpired(RespAt(1)) /\ IsExpired(RespAt(3))

\* C4: an xrpc_get whose first response is 400 ExpiredToken and whose
\* refresh request and storage.set both succeed does, in this order:
\* request, refresh request, storage.set, swap, request again; two requests
\* go to the target and one to refresh; and when it returns Client.session
\* has the fields of the refresh response.
C4_SuccessfulRefreshPath ==
    (op = "xrpc_get" /\ DispatchReturned /\ IsExpired(RespAt(1))
        /\ RefreshAnswerOk(RespAt(2)) /\ SetSucceeded)
    => /\ StepNames = <<"target", "refresh", "set", "setOk", "swap", "target">>
       /\ TargetSends = 2 /\ RefreshSends = 1
       /\ session.did = RespAt(2).body.did
       /\ session.handle = RespAt(2).body.handle
       /\ session.jwt.access = RespAt(2).body.accessJwt
       /\ session.jwt.refresh = RespAt(2).body.refreshJwt

\* C4 witness: such an xrpc_get has returned a value, with a Session that
\* differs from the one it started with.
C4_Witness ==
    /\ op = "xrpc_get" /\ DispatchReturned /\ IsExpired(RespAt(1))
    /\ RefreshAnswerOk(RespAt(2)) /\ result.kind = "Ok"
    /\ session # sessionAtCall
    /\ session.jwt.access # session.jwt.refresh

\* The refresh of the running call failed: its request failed, was answered
\* with an error status or an unparsable body, or storage.set failed.
RefreshFailed ==
    /\ RefreshSends >= 1 /\ HasResp(2)
    /\ (~RefreshAnswerOk(RespAt(2)) \/ SetFailed)

\* C5: when the refresh started by a dispatcher call fails for any reason,
\* Client.session after the call is the Session before it, no request is
\* sent again, and the call returns Refresh(e), with e the storage error
\* when storage.set is what failed.
C5_RefreshFailureIsTerminal ==
    (IsDispatch /\ pc = "idle" /\ result # Cancelled /\ RefreshFailed)
    => /\ session = sessionAtCall
       /\ TargetSends = 1
       /\ result.kind = "Refresh"
       /\ result.inner = (IF SetFailed THEN "Storage" ELSE "Reqwest")

\* C5 witness: a call has returned after storage.set failed on a Session
\* that differs from the one in memory.
C5_Witness ==
    /\ DispatchReturned /\ SetFailed
    /\ pending # session /\ pending # NoSession

\* The positions at which a client exists.
ClientExists == pc \in {"idle"} \cup AwaitPoints

\* C6: in every state, cancellations included, Client.session is the Session
\* loaded by Client::new or a Session for which a storage.set of this client
\* has returned Ok.
C6_SwapOnlyAfterSave ==
    ClientExists => (session = loaded \/ session \in savedOk)

\* C6 witness: a call was cancelled, and Client.session is a Session that was
\* saved and swapped in, not the loaded one.
C6_Witness ==
    /\ ClientExists /\ result = Cancelled
    /\ session # loaded /\ session \in savedOk

\* C7: a login answered with a status other than 200 and 401 returns a typed
\* LoginError (a generic API failure) without panicking, and writes nothing
\* to storage.
C7_LoginOtherStatus ==
    (LoginReturned /\ HasResp(1) /\ RespAt(1).ok
        /\ RespAt(1).status \notin {OK, UNAUTHORIZED})
    => (pc # "panicked" /\ result.kind = "Api" /\ storage = storageAtCall)

\* C8: a login answered with 401 never calls storage.set and leaves the
\* storage as it was; when the body is the server's ApiError it returns the
\* Api variant with exactly that code and message.
C8_LoginUnauthorized ==
    (op = "login" /\ HasResp(1) /\ RespAt(1).ok /\ RespAt(1).status = UNAUTHORIZED)
    => /\ pc = "start"
       /\ SetCalls = 0
       /\ storage = storageAtCall
       /\ IsApiError(RespAt(1).body) =>
            /\ result.kind = "Api"
            /\ result.error = RespAt(1).body.error
            /\ result.message = RespAt(1).body.message

\* C8 witness: a login has returned after a 401 with an ApiError body, the
\* storage holding a Session from before.
C8_Witness ==
    /\ LoginReturned /\ RespAt(1).ok /\ RespAt(1).status = UNAUTHORIZED
    /\ IsApiError(RespAt(1).body) /\ RespAt(1).body.message = "m2"
    /\ storage # NoSession

\* C9: login returns Ok only when storage.set succeeded on the new Session;
\* with a 200, a parsable body and a failed storage.set it returns the
\* Storage variant, which is neither Reqwest nor Api; storage.set is called at
\* most once per login and only after a 200.
C9_LoginSave ==
    op = "login" =>
      /\ SetCalls <= 1
      /\ SetCalls = 1 => (RespAt(1).ok /\ RespAt(1).status = OK)
      /\ (pc = "start" /\ result.kind = "Ok") =>
            /\ StepNames = <<"login", "set", "setOk">>
            /\ storage = Session(RespAt(1).body.did, RespAt(1).body.handle,
                                 RespAt(1).body.accessJwt, RespAt(1).body.refreshJwt)
      /\ (pc = "start" /\ RespAt(1).ok /\ RespAt(1).status = OK
            /\ IsSessionBody(RespAt(1).body) /\ StepNames = <<"login", "set", "setErr">>)
         => (result.kind = "Storage" /\ storage = storageAtCall)

\* C9 witness: a login has returned after a 200 with a parsable body and a
\* failed storage.set.
C9_Witness ==
    /\ LoginReturned /\ RespAt(1).ok /\ RespAt(1).status = OK
    /\ IsSessionBody(RespAt(1).body) /\ SetFailed

\* C10: a dispatcher call whose first response has an error status with an
\* ApiError body and is not 400 ExpiredToken (401, 404, 500, 400 with
\* another code) returns the Api variant, with no refresh and no request
\* sent again; so does a call whose response to the request sent again is
\* such a response.
C10_OtherErrorsAreApiErrors ==
    /\ (DispatchReturned /\ RespAt(1).ok /\ IsErrorStatus(RespAt(1).status)
          /\ IsApiError(RespAt(1).body) /\ ~IsExpired(RespAt(1)))
       => (result.kind = "Api" /\ RefreshSends = 0 /\ TargetSends = 1)
    /\ (DispatchReturned /\ HasResp(3) /\ RespAt(3).ok
          /\ IsErrorStatus(RespAt(3).status) /\ IsApiError(RespAt(3).body))
       => (result.kind = "Api" /\ RefreshSends = 1 /\ TargetSends = 2)

\* The send that the i-th event of the log answers failed at transport level.
IsNetFailAt(i) == log[i].ev = "resp" /\ ~log[i].resp.ok

\* C11 as stated: a transport failure at any send of a dispatcher call (the
\* request, the refresh request, the request sent again) ends the call with
\* a transport error, the Reqwest variant, and nothing is sent afterwards.
C11_TransportFailureIsReqwest ==
    IsDispatch =>
      \A i \in 1..Len(log) :
        IsNetFailAt(i) =>
          (i = Len(log) /\ pc = "idle" /\ result = ReqwestError("send"))

\* C11 amended: a transport failure at any send ends the call at once, with
\* nothing sent afterwards and the failed send not repeated; the call returns
\* the Reqwest variant when the send was to the target, and Refresh wrapping
\* RefreshError::Reqwest when it was the refresh request.
C11_TransportFailureEndsCall ==
    IsDispatch =>
      \A i \in 1..Len(log) :
        IsNetFailAt(i) =>
          /\ i = Len(log) /\ i > 1 /\ pc = "idle"
          /\ result = (IF log[i - 1].ev = "refresh"
                       THEN RefreshErrorResult("Reqwest") ELSE ReqwestError("send"))

\* C11 witness: a call has returned after the request sent again, following
\* a successful refresh, failed at transport level.
C11_Witness ==
    /\ DispatchReturned /\ TargetSends = 2 /\ HasResp(3) /\ ~RespAt(3).ok
    /\ result = ReqwestError("send")

\* Token 0 is the empty string.
IsEmptyToken(tok) == tok = 0

\* C12: every Session there is (built from a login or a refresh response,
\* held by the client, held by the storage) has a non-empty access credential
\* and a non-empty refresh credential.
C12_CredentialsNonEmpty ==
    \A s \in {session, storage, pending} \ {NoSession} :
        ~IsEmptyToken(s.jwt.access) /\ ~IsEmptyToken(s.jwt.refresh)

\* What the running (or last) operation was given and what it did.
RespSeq == [i \in 1..Len(Resps) |-> Resps[i].resp]
SetOutcome == IF SetSucceeded THEN "ok" ELSE IF SetFailed THEN "err" ELSE "none"
Observed == Outcome(Len(Resps), Steps, session, storage, result)

\* C13: an xrpc_post whose body serialises does, on the same Session, the
\* same responses and the same storage.set outcome, exactly what xrpc_get
\* does: the same sends, refresh and save in the same order, the same
\* Client.session and storage at the end, the same outcome.
C13_PostBehavesAsGet ==
    (DispatchReturned /\ result.kind # "Json")
    => Observed = GetRun(sessionAtCall, storageAtCall, RespSeq, SetOutcome)

\* C13 witness: an xrpc_post has returned a value after a refresh that
\* changed the Session.
C13_Witness ==
    /\ op = "xrpc_post" /\ DispatchReturned /\ result.kind = "Ok"
    /\ TargetSends = 2 /\ session # sessionAtCall

C15_RecordValues ==
    /\ (recOp = "repo_list_records" /\ recGot.kind = "Ok") =>
          /\ recOut.kind = "Ok"
          /\ Len(recOut.value) = Len(recGot.value.records)
          /\ \A i \in 1..Len(recGot.value.records) :
                recOut.value[i] = recGot.value.records[i].value
    /\ (recOp = "repo_get_record" /\ recGot.kind = "Ok") =>
          (recOut.kind = "Ok" /\ recOut.value = recGot.value.value)
    /\ (recOp # "none" /\ recGot.kind # "Ok") => recOut = recGot

\* C15 witness: repo_list_records has returned the values of three records
\* that do not all have the same value.
C15_Witness ==
    /\ recOp = "repo_list_records" /\ recGot.kind = "Ok"
    /\ Len(recOut.value) = 3
    /\ recOut.value[1] # recOut.value[3]

\* C16: in a dispatcher call the refresh request carries the refresh token
\* of the Session the call started with (the Session in memory at that
\* send); the first target request carries that Session's access token; a
\* target request sent again carries the access token of the refresh
\* response, which is the access token of the Session then in memory.
C16_CredentialPerRequest ==
    IsDispatch => \A i \in 1..Len(log) :
        /\ log[i].ev = "refresh" => log[i].tok = sessionAtCall.jwt.refresh
        /\ (log[i].ev = "target" /\ i = 1) => log[i].tok = sessionAtCall.jwt.access
        /\ (log[i].ev = "target" /\ i > 1) =>
              /\ HasResp(2) /\ RefreshAnswerOk(RespAt(2))
              /\ log[i].tok = RespAt(2).body.accessJwt
              /\ log[i].tok = session.jwt.access

\* C16 witness: a call started with different access and refresh tokens, was
\* refreshed, and sent the request again with an access token other than the
\* first one.
C16_Witness ==
    /\ IsDispatch /\ TargetSends = 2 /\ RefreshSends = 1
    /\ sessionAtCall.jwt.access # sessionAtCall.jwt.refresh
    /\ session.jwt.access # sessionAtCall.jwt.access
    /\ \E i \in 2..Len(log) : log[i].ev = "target" /\ log[i].tok # log[1].tok

\* A dispatcher call was cancelled at the await of storage.set after the
\* storage had applied the write.
CancelledAfterWrite == IsDispatch /\ result = Cancelled /\ CountEv(log, "written") > 0

\* C17: when a dispatcher call is cancelled at the await of storage.set after
\* the storage applied the write, the storage holds the Session of the
\* refresh response, the Session in memory is the one the call started with
\* (no swap took place), and as long as the call stays the last one neither
\* of them changes: the write is not rolled back.
C17_CancelAfterWrite ==
    /\ [](CancelledAfterWrite =>
            /\ HasResp(2) /\ RefreshAnswerOk(RespAt(2))
            /\ storage = FromRefreshSession(RespAt(2).body)
            /\ session = sessionAtCall
            /\ CountEv(log, "swap") = 0)
    /\ [][CancelledAfterWrite => (storage' = storage /\ session' = session)]_vars

\* C17 witness: after such a cancellation the storage holds a Session other
\* than the one in memory.
C17_Witness ==
    /\ CancelledAfterWrite
    /\ storage # session
    /\ storage # storageAtCall

\* C18: a dispatcher call whose first response is not a 400 with the ApiError
\* code "ExpiredToken" has sent one target request and no refresh request,
\* has not called storage.set, has ended at that response, and has left the
\* Session in memory and the storage as they were; storage.get is called by
\* no operation other than Client::new.
C18_FrameOfOtherResponses ==
    /\ (IsDispatch /\ HasResp(1) /\ ~IsExpired(RespAt(1))) =>
          /\ TargetSends = 1 /\ RefreshSends = 0 /\ SetCalls = 0
          /\ CountEv(log, "swap") = 0
          /\ Len(log) = 2 /\ pc = "idle"
          /\ session = sessionAtCall /\ storage = storageAtCall
    /\ (op # "new") => CountEv(log, "get") = 0
    /\ (op = "new") => log = <<StepEv("get")>>

\* C18 witness: a call has returned on a first response of 400 with an
\* ApiError code other than "ExpiredToken".
C18_Witness ==
    /\ DispatchReturned /\ HasResp(1)
    /\ RespAt(1).ok /\ RespAt(1).status = BAD_REQUEST
    /\ IsApiError(RespAt(1).body) /\ RespAt(1).body.error = "InvalidRequest"
    /\ TargetSends = 1

\* C19: when no call is cancelled and a failed storage.set leaves the storage
\* as it was, the Session in memory equals the Session in the storage
\* whenever the client exists and no call is running: after login or
\* Client::new and after every dispatcher call, whatever its outcome.
C19_MemoryEqualsStorage == (pc = "idle") => session = storage

\* C19 witness: a call has returned after its refresh failed at storage.set,
\* with a new Session that was not stored.
C19_Witness ==
    /\ DispatchReturned /\ SetFailed
    /\ pending # storage
    /\ session = storage

\* A dispatcher call returned an error after its refresh and save succeeded.
FailedAfterRefresh ==
    /\ DispatchReturned /\ HasResp(2)
    /\ IsExpired(RespAt(1)) /\ RefreshAnswerOk(RespAt(2)) /\ SetSucceeded
    /\ result.kind # "Ok"

\* C20: when the first response is 400 ExpiredToken, the refresh and the save
\* succeed and the request sent again fails (no response, an error status or
\* a body that does not parse), the call returns a reqwest error while the
\* Session in memory and the Session in the storage are both the Session of
\* the refresh response.
C20_ErrorKeepsRefreshedSession ==
    FailedAfterRefresh =>
        /\ HasResp(3)
        /\ (~RespAt(3).ok \/ IsErrorStatus(RespAt(3).status) \/ ~IsValue(RespAt(3).body))
        /\ result = (IF ~RespAt(3).ok THEN ReqwestError("send")
                     ELSE ErrorForStatusThenJson(RespAt(3)))
        /\ result.kind = "Reqwest"
        /\ session = FromRefreshSession(RespAt(2).body)
        /\ storage = FromRefreshSession(RespAt(2).body)

\* C20 witness: such a call has returned an error and left a Session other
\* than the one it started with.
C20_Witness ==
    /\ FailedAfterRefresh
    /\ session # sessionAtCall
    /\ storage # storageAtCall
====
